---------------------------- MODULE Spec2Model ----------------------------
(***************************************************************************)
(* Availability & booking orchestration of the scheduling backend.         *)
(*                                                                         *)
(*   app/routers/schedule_routes.py  book / reschedule / cancel            *)
(*   app/crud.py                     Booking store operations              *)
(*   app/models.py                   Booking table                         *)
(*   app/google_calendar.py          calendar wrappers, slot computation   *)
(*                                                                         *)
(* Every request runs as its own task; a task yields at each await (store  *)
(* call, calendar call), so one action is one stretch of handler code      *)
(* between two awaits.  The calendar and the database are collaborators    *)
(* that may fail: each call to them nondeterministically succeeds or       *)
(* raises.                                                                 *)
(*                                                                         *)
(* The routes obtain their session with "async for session in              *)
(* get_session()"; the model takes get_session as the one-shot async       *)
(* generator that loop expects (one session per request, loop body run     *)
(* once).                                                                  *)
(***************************************************************************)
EXTENDS Integers, Sequences, FiniteSets, TLC

(* ------------------------------ bounds -------------------------------- *)
NProcs == 2
MaxRequests == 3
MaxClock == 2
MaxT == 2
MaxEvents == 2
MaxBusy == 3
MaxTime == 3
MaxHour == 4
MaxSlotBusy == 2
MaxDuration == 2

Procs == 1..NProcs

\* (start, end) pairs a payload may carry: unit windows, and one empty window
Windows == {<<s, s + 1>> : s \in 0..(MaxT - 1)} \cup {<<0, 0>>}

\* Python None
None == "None"

\* strings a client may put in a payload (idempotency_key, booking_ref)
ClientStrings == {"k1"}
\* book, line 108: payload.get("calendar_id", "primary")
CalendarIds == {"primary"}

VARIABLES
    store,      \* Booking table: sequence of rows, row id = position
    events,     \* the external calendar: sequence of events, event id = position
    clock,      \* wall clock in seconds
    nreq,       \* number of requests received so far
    pc,         \* per task: position in its handler
    req,        \* per task: the request payload
    seen,       \* per task: number of rows in the table when its request arrived
    evt,        \* per task: book's evt.get("id")
    booking,    \* per task: the Booking object loaded in the task's session
    result,     \* per task: the response
    calls,      \* per task: record of the collaborator calls it made
    mail,       \* per task: the notification the handler launched, if any
    busy_intervals, \* compute_free_slots_from_freebusy: the aggregated (start, end) pairs
    merged,         \* compute_free_slots_from_freebusy: the merged busy intervals
    fb_pc,          \* availability / compute_free_slots_from_freebusy: position
    work_start,     \* availability: int(payload.get("work_start", 9))
    work_end,       \* availability: int(payload.get("work_end", 17))
    duration,       \* availability: int(payload.get("duration", 30))
    busy_aware,     \* whether the busy datetimes carry a UTC offset ("Z")
    slots,          \* compute_free_slots_from_freebusy: the slots found
    fb_call,        \* availability: how the freebusy call ended
    fb,             \* availability: the freebusy response, one busy list per calendar
    fb_result       \* availability: the response

booking_vars == <<store, events, clock, nreq, pc, req, seen, evt, booking, result, calls,
                  mail>>
freebusy_vars == <<busy_intervals, merged, fb_pc,
                   work_start, work_end, duration, busy_aware, slots, fb_call, fb, fb_result>>
vars == <<store, events, clock, nreq, pc, req, seen, evt, booking, result, calls, mail,
          busy_intervals, merged, fb_pc,
          work_start, work_end, duration, busy_aware, slots, fb_call, fb, fb_result>>

(* --------------------------- store helpers ---------------------------- *)

\* "BK-" + str(int(datetime.utcnow().timestamp()))
BookingRef(t) == "BK-" \o ToString(t)

\* strings a reschedule / cancel request may name: the stored references and
\* the client strings (stored or not)
RefStrings(rows) == ClientStrings \cup {rows[i].booking_ref : i \in DOMAIN rows}

\* Python truthiness of an optional string
Truthy(s) == s # None /\ s # ""

\* an event id the calendar never issues: Python None for evt.get("id")
NoEvent == 0
\* the empty string as an event id
EmptyId == 0 - 1

\* models.Booking, restricted to the columns the orchestration reads or writes
Booking(id, ref, key, cal, eid, s, e, st, created, updated) ==
    [id |-> id, booking_ref |-> ref, idempotency_key |-> key, calendar_id |-> cal,
     event_id |-> eid, start |-> s, end |-> e, status |-> st,
     created_at |-> created, updated_at |-> updated]

\* Python None where a Booking is expected (row ids start at 1)
NoBooking == Booking(0, None, None, None, NoEvent, 0, 0, "none", 0, 0)

\* crud.get_booking_by_ref: first row whose booking_ref equals the argument
get_booking_by_ref(rows, ref) ==
    IF \E i \in DOMAIN rows : rows[i].booking_ref = ref
    THEN rows[CHOOSE i \in DOMAIN rows :
                 /\ rows[i].booking_ref = ref
                 /\ \A j \in DOMAIN rows : rows[j].booking_ref = ref => i <= j]
    ELSE NoBooking

\* the not-found test left out
Found_Mut(b) == TRUE

\* "if existing:" / "if not booking:" on what get_booking_by_ref returned
Found(b) == b # NoBooking

\* models.Booking.booking_ref is unique=True; idempotency_key is only indexed
UniqueViolation(rows, b) == \E i \in DOMAIN rows : rows[i].booking_ref = b.booking_ref

\* models.Booking.event_id is a required str column: None is refused, "" is not
NotNullViolation(b) == b.event_id = NoEvent

NoReq == [op |-> "none", booking_ref |-> None, idempotency_key |-> None,
          calendar_id |-> None, start |-> 0, end |-> 0]
NoResult == [status |-> "none", booking |-> NoBooking]
Response(s, b) == [status |-> s, booking |-> b]
\* one recorded collaborator call; outcome is "ok", "error" (the call raised) or
\* "unique_violation" (the insert raised on the unique booking_ref)
Call(op, cal, eid, outcome) ==
    [op |-> op, calendar_id |-> cal, event_id |-> eid, outcome |-> outcome]
Outcome(ok) == IF ok THEN "ok" ELSE "error"

\* A finished handler hands its response over before any task goes on: the
\* hand-over touches the task's own locals only, so this prunes no behaviour
\* of the store or of the calendar.
Quiet == \A q \in DOMAIN pc : pc[q] # "done"
At(r, label) == pc[r] = label /\ Quiet
Idle(r) == At(r, "idle")

InitBooking ==
    /\ store = << >>
    /\ events = << >>
    /\ clock = 1
    /\ nreq = 0
    /\ pc = [r \in Procs |-> "idle"]
    /\ req = [r \in Procs |-> NoReq]
    /\ seen = [r \in Procs |-> 0]
    /\ evt = [r \in Procs |-> NoEvent]
    /\ booking = [r \in Procs |-> NoBooking]
    /\ result = [r \in Procs |-> NoResult]
    /\ calls = [r \in Procs |-> << >>]
    /\ mail = [r \in Procs |-> "none"]

\* no availability request under way
NoAvailability ==
    /\ work_start = 0
    /\ work_end = 0
    /\ duration = 0
    /\ busy_aware = FALSE
    /\ slots = << >>
    /\ fb_call = "none"
    /\ fb = << >>
    /\ fb_result = [status |-> "none", slots |-> << >>, details |-> ""]

Init ==
    /\ InitBooking
    /\ busy_intervals = << >>
    /\ merged = << >>
    /\ fb_pc = "off"
    /\ NoAvailability

\* a request arrives at task r
Receive(r, payload, next_pc, response) ==
    /\ Idle(r)
    /\ \A q \in Procs : q < r => ~Idle(q)
    /\ nreq < MaxRequests
    /\ nreq' = nreq + 1
    /\ seen' = [seen EXCEPT ![r] = Len(store)]
    /\ req' = [req EXCEPT ![r] = payload]
    /\ pc' = [pc EXCEPT ![r] = next_pc]
    /\ result' = [result EXCEPT ![r] = response]
    /\ UNCHANGED <<store, events, clock, evt, booking, calls, mail>>
    /\ UNCHANGED freebusy_vars

\* the handler returns
Return(r, response) ==
    /\ pc' = [pc EXCEPT ![r] = "done"]
    /\ result' = [result EXCEPT ![r] = response]

Log(r, c) == calls' = [calls EXCEPT ![r] = Append(@, c)]

\* an exception while the notification is set up reaches the client
AfterLaunch_Mut(launched, response) ==
    IF launched THEN response ELSE [status |-> "internal_error", booking |-> response.booking]

\* book, lines 177-191 (reschedule 246-262, cancel 300-311): the try around
\* asyncio.create_task swallows whatever goes wrong, the response is the same
AfterLaunch(launched, response) == response

\* the handler launches the notification with asyncio.create_task, does not
\* await it, and returns
LaunchAndReturn(r, response) ==
    \E launched \in BOOLEAN :
        /\ mail' = [mail EXCEPT ![r] = IF launched THEN "pending" ELSE "not_launched"]
        /\ Return(r, AfterLaunch(launched, response))

\* email_services.send_booking_confirmation_email / send_generic_email: the
\* launched task runs to its end, with or without the mail being sent; a task
\* that never gets there stays pending
Notify(r) ==
    /\ pc[r] = "done"
    /\ mail[r] = "pending"
    /\ \E sent \in BOOLEAN : mail' = [mail EXCEPT ![r] = IF sent THEN "sent" ELSE "failed"]
    /\ UNCHANGED <<store, events, clock, nreq, pc, req, seen, evt, booking, result, calls>>
    /\ UNCHANGED freebusy_vars

\* session.commit(): the pending write is in the table only if the commit
\* went through
Commit_Mut(ok, before, after) == after
Commit(ok, before, after) == IF ok THEN after ELSE before

\* the response leaves, the task is free again
Respond(r) ==
    /\ pc[r] = "done"
    /\ pc' = [pc EXCEPT ![r] = "idle"]
    /\ req' = [req EXCEPT ![r] = NoReq]
    /\ seen' = [seen EXCEPT ![r] = 0]
    /\ evt' = [evt EXCEPT ![r] = NoEvent]
    /\ booking' = [booking EXCEPT ![r] = NoBooking]
    /\ result' = [result EXCEPT ![r] = NoResult]
    /\ calls' = [calls EXCEPT ![r] = << >>]
    /\ mail' = [mail EXCEPT ![r] = "none"]
    /\ UNCHANGED <<store, events, clock, nreq>>
    /\ UNCHANGED freebusy_vars

Tick ==
    /\ Quiet
    /\ clock < MaxClock
    /\ clock' = clock + 1
    /\ UNCHANGED <<store, events, nreq, pc, req, seen, evt, booking, result, calls, mail>>
    /\ UNCHANGED freebusy_vars

(* -------------------------- calendar service -------------------------- *)

Event(cal, s, e) == [calendar_id |-> cal, start |-> s, end |-> e, deleted |-> FALSE]

\* the event (calendarId, eventId) addresses, if any
EventExists(evs, cal, eid) == eid \in DOMAIN evs /\ evs[eid].calendar_id = cal

\* google_calendar.create_event: events().insert(...).execute()
create_event(evs, cal, s, e) == Append(evs, Event(cal, s, e))

\* google_calendar.update_event: events().patch(...).execute()
update_event(evs, cal, eid, s, e) == [evs EXCEPT ![eid].start = s, ![eid].end = e]

\* google_calendar.delete_event: events().delete(...).execute()
delete_event(evs, cal, eid) == [evs EXCEPT ![eid].deleted = TRUE]

(* ------------------------------ POST /book ---------------------------- *)

BookPayload(key, ref, cal, s, e) ==
    [op |-> "book", booking_ref |-> ref, idempotency_key |-> key,
     calendar_id |-> cal, start |-> s, end |-> e]

\* the range check left out
InvalidRange_Mut(s, e) == FALSE

\* book, lines 118-125: end_dt <= start_dt is refused
InvalidRange(s, e) == e <= s

\* book, line 129: "if idempotency_key:" decides whether the lookup is made
BookFirstStep(key) == IF Truthy(key) THEN "book_lookup" ELSE "book_create_event"

\* book requests that have not yet reached the calendar
BooksAhead == Cardinality({q \in Procs : pc[q] \in {"book_lookup", "book_create_event"}})

\* book, lines 101-126: parse and validate the payload
BookRequest(r) ==
    /\ Len(events) + BooksAhead < MaxEvents
    /\ \E key \in ClientStrings \cup {None}, ref \in ClientStrings \cup {None},
       cal \in CalendarIds, w \in Windows :
        IF InvalidRange(w[1], w[2])
        THEN Receive(r, BookPayload(key, ref, cal, w[1], w[2]), "done",
                     Response("end_must_be_after_start", NoBooking))
        ELSE Receive(r, BookPayload(key, ref, cal, w[1], w[2]), BookFirstStep(key), NoResult)

\* book, line 130: the row an idempotency_key is taken to name
IdempotencyLookup(rows, key) == get_booking_by_ref(rows, key)

\* book, lines 129-134: idempotency check
BookLookup(r) ==
    /\ At(r, "book_lookup")
    /\ \E ok \in BOOLEAN :
        IF ~ok
        THEN \* the SELECT raises: nothing in book catches it
             /\ Return(r, Response("internal_error", NoBooking))
             /\ Log(r, Call("select", None, NoEvent, "error"))
             /\ UNCHANGED booking
        ELSE LET existing == IdempotencyLookup(store, req[r].idempotency_key) IN
             /\ Log(r, Call("select", None, NoEvent, "ok"))
             /\ booking' = [booking EXCEPT ![r] = existing]
             /\ IF Found(existing)
                THEN Return(r, Response("ok", existing))
                ELSE /\ pc' = [pc EXCEPT ![r] = "book_create_event"]
                     /\ UNCHANGED result
    /\ UNCHANGED <<store, events, clock, nreq, req, seen, evt, mail>>
    /\ UNCHANGED freebusy_vars

\* a failed create_event is tried again
AfterCreateEvent_Retry(ok) == IF ok THEN "book_insert" ELSE "book_create_event"

\* the failure of create_event swallowed: the handler goes on to the insert
AfterCreateEvent_Mut(ok) == "book_insert"

\* book, lines 146-152: a failed create_event ends the request
AfterCreateEvent(ok) == IF ok THEN "book_insert" ELSE "done"

\* book, lines 147 and 160: what evt.get("id") yields for the event resource
\* the calendar answered with: its id, "" or None (no "id" in the resource)
ResponseIds(id) == {id, EmptyId, NoEvent}

\* book, lines 146-150: create the calendar event
BookCreateEvent(r) ==
    /\ At(r, "book_create_event")
    /\ \E ok \in BOOLEAN :
        /\ IF ok
           THEN /\ events' = create_event(events, req[r].calendar_id, req[r].start, req[r].end)
                /\ \E id \in ResponseIds(Len(events) + 1) :
                     /\ evt' = [evt EXCEPT ![r] = id]
                     /\ Log(r, Call("createEvent", req[r].calendar_id, id, "ok"))
           ELSE /\ Log(r, Call("createEvent", req[r].calendar_id, NoEvent, "error"))
                /\ UNCHANGED <<events, evt>>
        /\ IF AfterCreateEvent(ok) = "done"
           THEN Return(r, Response("calendar_create_failed", NoBooking))
           ELSE /\ pc' = [pc EXCEPT ![r] = AfterCreateEvent(ok)]
                /\ UNCHANGED result
    /\ UNCHANGED <<store, clock, nreq, req, seen, booking, mail>>
    /\ UNCHANGED freebusy_vars

\* book, line 156: payload.get("booking_ref") or ("BK-" + str(int(utcnow().timestamp())))
NewBookingRef(ref, now) == IF Truthy(ref) THEN ref ELSE BookingRef(now)

\* the row is stored as a tentative one
NewBooking_Mut(rows, rq, eid, now) ==
    Booking(Len(rows) + 1, NewBookingRef(rq.booking_ref, now), rq.idempotency_key,
            rq.calendar_id, eid, rq.start, rq.end, "tentative", now, 0)

\* book, lines 154-167: the row handed to crud.create_booking
NewBooking(rows, rq, eid, now) ==
    Booking(Len(rows) + 1, NewBookingRef(rq.booking_ref, now), rq.idempotency_key,
            rq.calendar_id, eid, rq.start, rq.end, "confirmed", now, 0)

\* book, lines 152-167 and crud.create_booking: add, commit, refresh
BookInsert(r) ==
    /\ At(r, "book_insert")
    /\ LET b == NewBooking(store, req[r], evt[r], clock) IN
       \E outcome \in {"ok", "commit_fails"} :
         \/ /\ outcome = "ok"
            /\ ~UniqueViolation(store, b)
            /\ ~NotNullViolation(b)
            /\ store' = Append(store, b)
            /\ booking' = [booking EXCEPT ![r] = b]
            /\ Log(r, Call("insert", None, NoEvent, "ok"))
            /\ LaunchAndReturn(r, Response("ok", b))
         \/ /\ outcome = "commit_fails" \/ UniqueViolation(store, b) \/ NotNullViolation(b)
            /\ Log(r, Call("insert", None, NoEvent,
                           IF outcome # "ok" THEN "error"
                           ELSE IF NotNullViolation(b) THEN "not_null_violation"
                           ELSE "unique_violation"))
            /\ pc' = [pc EXCEPT ![r] = "book_rollback"]
            /\ UNCHANGED <<store, booking, result, mail>>
    /\ UNCHANGED <<events, clock, nreq, req, seen, evt>>
    /\ UNCHANGED freebusy_vars

\* the rollback reads the event id under a key the event resource does not have
RollbackTarget_Mut(rq, eid) == [calendar_id |-> rq.calendar_id, event_id |-> NoEvent]

\* book, line 172: the event the rollback asks the calendar to delete
RollbackTarget(rq, eid) == [calendar_id |-> rq.calendar_id, event_id |-> eid]

\* a rollback that failed is what the client is told
AfterRollback_Mut(ok) == IF ok THEN "db_create_failed" ELSE "calendar_delete_failed"

\* book, lines 171-175: the except around the rollback only logs, the answer
\* is db_create_failed either way
AfterRollback(ok) == "db_create_failed"

\* book, lines 168-175: delete the event again, answer db_create_failed
BookRollback(r) ==
    /\ At(r, "book_rollback")
    /\ LET t == RollbackTarget(req[r], evt[r]) IN
       \E ok \in BOOLEAN :
         /\ ok => EventExists(events, t.calendar_id, t.event_id)
         /\ events' = IF ok THEN delete_event(events, t.calendar_id, t.event_id) ELSE events
         /\ Log(r, Call("deleteEvent", t.calendar_id, t.event_id, Outcome(ok)))
         /\ Return(r, Response(AfterRollback(ok), NoBooking))
    /\ UNCHANGED <<store, clock, nreq, req, seen, evt, booking, mail>>
    /\ UNCHANGED freebusy_vars

(* --------------------------- store updates ---------------------------- *)

\* the status is left as it was
reschedule_booking_Keep(rows, ref, new_start, new_end, now) ==
    LET b == get_booking_by_ref(rows, ref) IN
    IF b = NoBooking THEN rows
    ELSE [rows EXCEPT ![b.id] =
            [@ EXCEPT !.start = new_start, !.end = new_end, !.updated_at = now]]

\* new_start is written to both columns
reschedule_booking_Mut(rows, ref, new_start, new_end, now) ==
    LET b == get_booking_by_ref(rows, ref) IN
    IF b = NoBooking THEN rows
    ELSE [rows EXCEPT ![b.id] =
            [@ EXCEPT !.start = new_start, !.end = new_start,
                      !.status = "rescheduled", !.updated_at = now]]

\* crud.reschedule_booking: the row booking_ref names gets the new window;
\* without such a row nothing is written (the function returns None)
reschedule_booking(rows, ref, new_start, new_end, now) ==
    LET b == get_booking_by_ref(rows, ref) IN
    IF b = NoBooking THEN rows
    ELSE [rows EXCEPT ![b.id] =
            [@ EXCEPT !.start = new_start, !.end = new_end,
                      !.status = "rescheduled", !.updated_at = now]]

\* every row gets the status
update_booking_status_All(rows, ref, status, now) ==
    [k \in DOMAIN rows |-> [rows[k] EXCEPT !.status = status, !.updated_at = now]]

\* the row is removed instead of being marked
update_booking_status_Del(rows, ref, status, now) ==
    SelectSeq(rows, LAMBDA b : b.booking_ref # ref)

\* the status assignment left out: only updated_at is written
update_booking_status_Mut(rows, ref, status, now) ==
    LET b == get_booking_by_ref(rows, ref) IN
    IF b = NoBooking THEN rows
    ELSE [rows EXCEPT ![b.id] = [@ EXCEPT !.updated_at = now]]

\* crud.update_booking_status: the row booking_ref names gets the status;
\* without such a row nothing is written (the function returns None)
update_booking_status(rows, ref, status, now) ==
    LET b == get_booking_by_ref(rows, ref) IN
    IF b = NoBooking THEN rows
    ELSE [rows EXCEPT ![b.id] = [@ EXCEPT !.status = status, !.updated_at = now]]

(* --------------------------- POST /reschedule ------------------------- *)

ReschedulePayload(ref, s, e) ==
    [op |-> "reschedule", booking_ref |-> ref, idempotency_key |-> None,
     calendar_id |-> None, start |-> s, end |-> e]

\* reschedule, lines 203-221: parse and validate the payload
RescheduleRequest(r) ==
    \E ref \in RefStrings(store), w \in Windows :
        IF InvalidRange(w[1], w[2])
        THEN Receive(r, ReschedulePayload(ref, w[1], w[2]), "done",
                     Response("end_must_be_after_start", NoBooking))
        ELSE Receive(r, ReschedulePayload(ref, w[1], w[2]), "reschedule_lookup", NoResult)

\* reschedule, lines 224-226 / cancel, lines 283-285: load the booking
LookupBooking(r, found_pc) ==
    /\ \E ok \in BOOLEAN :
        IF ~ok
        THEN /\ Return(r, Response("internal_error", NoBooking))
             /\ Log(r, Call("select", None, NoEvent, "error"))
             /\ UNCHANGED booking
        ELSE LET b == get_booking_by_ref(store, req[r].booking_ref) IN
             /\ Log(r, Call("select", None, NoEvent, "ok"))
             /\ booking' = [booking EXCEPT ![r] = b]
             /\ IF ~Found(b)
                THEN Return(r, Response("booking_not_found", NoBooking))
                ELSE /\ pc' = [pc EXCEPT ![r] = found_pc]
                     /\ UNCHANGED result
    /\ UNCHANGED <<store, events, clock, nreq, req, seen, evt, mail>>
    /\ UNCHANGED freebusy_vars

RescheduleLookup(r) ==
    /\ At(r, "reschedule_lookup")
    /\ LookupBooking(r, "reschedule_update_event")

\* the failure of update_event swallowed: the handler goes on to the store
AfterUpdateEvent_Mut(ok) == "reschedule_db"

\* reschedule, lines 235-239: a failed update_event ends the request
AfterUpdateEvent(ok) == IF ok THEN "reschedule_db" ELSE "done"

\* reschedule, lines 228-237: move the calendar event
RescheduleUpdateEvent(r) ==
    /\ At(r, "reschedule_update_event")
    /\ LET b == booking[r] IN
       \E ok \in BOOLEAN :
         /\ ok => EventExists(events, b.calendar_id, b.event_id)
         /\ Log(r, Call("updateEvent", b.calendar_id, b.event_id, Outcome(ok)))
         /\ events' = IF ok THEN update_event(events, b.calendar_id, b.event_id,
                                              req[r].start, req[r].end)
                            ELSE events
         /\ IF AfterUpdateEvent(ok) = "done"
            THEN Return(r, Response("calendar_update_failed", NoBooking))
            ELSE /\ pc' = [pc EXCEPT ![r] = AfterUpdateEvent(ok)]
                 /\ UNCHANGED result
    /\ UNCHANGED <<store, clock, nreq, req, seen, evt, booking, mail>>
    /\ UNCHANGED freebusy_vars

\* reschedule, lines 239-244, and crud.reschedule_booking
RescheduleDb(r) ==
    /\ At(r, "reschedule_db")
    /\ \E outcome \in {"ok", "commit_fails"} :
         /\ store' = Commit(outcome = "ok", store,
                            reschedule_booking(store, req[r].booking_ref,
                                               req[r].start, req[r].end, clock))
         /\ Log(r, Call("update", None, NoEvent, Outcome(outcome = "ok")))
         /\ UNCHANGED booking
         /\ IF outcome = "ok"
            THEN LaunchAndReturn(r, Response("ok", get_booking_by_ref(store',
                                                                       req[r].booking_ref)))
            ELSE /\ Return(r, Response("db_update_failed", NoBooking))
                 /\ UNCHANGED mail
    /\ UNCHANGED <<events, clock, nreq, req, seen, evt>>
    /\ UNCHANGED freebusy_vars

(* ----------------------------- POST /cancel --------------------------- *)

CancelPayload(ref) ==
    [op |-> "cancel", booking_ref |-> ref, idempotency_key |-> None,
     calendar_id |-> None, start |-> 0, end |-> 0]

\* cancel, lines 273-280
CancelRequest(r) ==
    \E ref \in RefStrings(store) : Receive(r, CancelPayload(ref), "cancel_lookup", NoResult)

CancelLookup(r) ==
    /\ At(r, "cancel_lookup")
    /\ LookupBooking(r, "cancel_delete_event")

\* a failed delete_event ends the request
AfterDeleteEvent_Mut(ok) == IF ok THEN "cancel_db" ELSE "done"

\* cancel, lines 287-291: the except around delete_event only logs
AfterDeleteEvent(ok) == "cancel_db"

\* cancel, lines 287-291: delete the calendar event, go on whatever happens
CancelDeleteEvent(r) ==
    /\ At(r, "cancel_delete_event")
    /\ LET b == booking[r] IN
       \E ok \in BOOLEAN :
         /\ ok => EventExists(events, b.calendar_id, b.event_id)
         /\ events' = IF ok THEN delete_event(events, b.calendar_id, b.event_id) ELSE events
         /\ Log(r, Call("deleteEvent", b.calendar_id, b.event_id, Outcome(ok)))
         /\ IF AfterDeleteEvent(ok) = "done"
            THEN Return(r, Response("calendar_delete_failed", NoBooking))
            ELSE /\ pc' = [pc EXCEPT ![r] = AfterDeleteEvent(ok)]
                 /\ UNCHANGED result
    /\ UNCHANGED <<store, clock, nreq, req, seen, evt, booking, mail>>
    /\ UNCHANGED freebusy_vars

\* cancel, lines 293-298, and crud.update_booking_status
CancelDb(r) ==
    /\ At(r, "cancel_db")
    /\ \E outcome \in {"ok", "commit_fails"} :
         /\ store' = Commit(outcome = "ok", store,
                            update_booking_status(store, req[r].booking_ref,
                                                  "cancelled", clock))
         /\ Log(r, Call("update", None, NoEvent, Outcome(outcome = "ok")))
         /\ UNCHANGED booking
         /\ IF outcome = "ok"
            THEN LaunchAndReturn(r, Response("ok", get_booking_by_ref(store',
                                                                       req[r].booking_ref)))
            ELSE /\ Return(r, Response("db_update_failed", NoBooking))
                 /\ UNCHANGED mail
    /\ UNCHANGED <<events, clock, nreq, req, seen, evt>>
    /\ UNCHANGED freebusy_vars

(* ------------- google_calendar.compute_free_slots_from_freebusy -------- *)

Max(a, b) == IF a >= b THEN a ELSE b

\* list.sort(key=lambda x: x[0]) is stable: x goes behind every pair that does
\* not start later
InsertByStart(sorted, x) ==
    LET n == Cardinality({i \in DOMAIN sorted : sorted[i][1] <= x[1]}) IN
    SubSeq(sorted, 1, n) \o <<x>> \o SubSeq(sorted, n + 1, Len(sorted))

RECURSIVE SortByStart(_)
SortByStart(intervals) ==
    IF intervals = << >> THEN << >>
    ELSE InsertByStart(SortByStart(SubSeq(intervals, 1, Len(intervals) - 1)),
                       intervals[Len(intervals)])

\* touching counts as apart: a pair is merged only if it starts before last ends
Overlaps_Mut(interval, last) == interval[1] < last[2]

\* line 210: interval[0] <= last[1]
Overlaps(interval, last) == interval[1] <= last[2]

\* lines 205-214: one turn of the merge loop
MergeOne(acc, interval) ==
    IF acc = << >> THEN <<interval>>
    ELSE LET last == acc[Len(acc)] IN
         IF Overlaps(interval, last)
         THEN [acc EXCEPT ![Len(acc)] = <<last[1], Max(last[2], interval[2])>>]
         ELSE Append(acc, interval)

RECURSIVE MergeLoop(_, _)
MergeLoop(acc, intervals) ==
    IF intervals = << >> THEN acc
    ELSE MergeLoop(MergeOne(acc, intervals[1]), Tail(intervals))

\* lines 202-214: sort, then merge
MergeBusy(intervals) == MergeLoop(<< >>, SortByStart(intervals))

\* every (start, end) pair, the ones with start >= end included
Pairs == (0..MaxTime) \X (0..MaxTime)

RECURSIVE ListsUpTo(_)
ListsUpTo(n) ==
    IF n = 0 THEN {<< >>}
    ELSE LET shorter == ListsUpTo(n - 1) IN
         shorter \cup {Append(l, x) : l \in {m \in shorter : Len(m) = n - 1}, x \in Pairs}

\* the function is entered with some aggregated busy list
InitFreeBusy ==
    /\ InitBooking
    /\ busy_intervals \in ListsUpTo(MaxBusy)
    /\ merged = << >>
    /\ fb_pc = "aggregated"
    /\ NoAvailability

\* lines 202-214
Merge ==
    /\ fb_pc = "aggregated"
    /\ merged' = MergeBusy(busy_intervals)
    /\ fb_pc' = "merged"
    /\ UNCHANGED <<busy_intervals, work_start, work_end, duration, busy_aware,
                   slots, fb_call, fb, fb_result>>
    /\ UNCHANGED booking_vars

NextFreeBusy == Merge

SpecFreeBusy == InitFreeBusy /\ [][NextFreeBusy]_vars

(* ----------------- slot walk and POST /availability ------------------- *)

\* hours of the queried day; durations are counted in the same unit
Hours == 0..MaxHour
\* int(payload.get("duration", 30)): zero and negative values pass
Durations == (0 - 1)..MaxDuration

\* lines 223-226: the slot starting at t
Slot(t, d) == <<t, t + d>>

\* a slot is emitted whenever it starts before the limit
Fits_Mut(t, d, limit) == t < limit

\* lines 222 and 231: t + timedelta(minutes=duration_minutes) <= limit
Fits(t, d, limit) == t + d <= limit

\* the next slot starts one unit later, whatever the duration
NextStart_Mut(t, d) == t + 1

\* lines 227 and 236: t = t + timedelta(minutes=duration_minutes)
NextStart(t, d) == t + d

\* lines 222-227 and 231-236: the while loop (d > 0)
RECURSIVE PackSlots(_, _, _)
PackSlots(t, d, limit) ==
    IF Fits(t, d, limit) THEN <<Slot(t, d)>> \o PackSlots(NextStart(t, d), d, limit)
    ELSE << >>

\* the cursor stays where it was
Advance_Mut(current, bend) == current

\* line 228: current = max(current, bend)
Advance(current, bend) == Max(current, bend)

\* lines 218-228: the for loop over the merged intervals; yields the cursor
\* and the slots appended so far
RECURSIVE WalkBusy(_, _, _, _)
WalkBusy(current, found, busy, d) ==
    IF busy = << >> THEN [current |-> current, slots |-> found]
    ELSE LET bstart == busy[1][1]
             bend == busy[1][2]
             gap == IF bstart > current THEN PackSlots(current, d, bstart) ELSE << >>
         IN WalkBusy(Advance(current, bend), found \o gap, Tail(busy), d)

\* lines 216-237
FreeSlots(busy, start_dt, end_dt, d) ==
    LET w == WalkBusy(start_dt, << >>, busy, d) IN
    w.slots \o PackSlots(w.current, d, end_dt)

\* a while loop whose step does not move t forward has no end of its own once
\* entered: every turn appends a slot
RECURSIVE LoopsForever(_, _, _, _)
LoopsForever(current, busy, end_dt, d) ==
    /\ d <= 0
    /\ IF busy = << >> THEN Fits(current, d, end_dt)
       ELSE \/ busy[1][1] > current /\ Fits(current, d, busy[1][1])
            \/ LoopsForever(Advance(current, busy[1][2]), Tail(busy), end_dt, d)

\* how such a loop ends. With a negative step t + timedelta falls below year 1
\* and raises OverflowError, if the slot list fits in memory until then; with
\* step 0 the list grows until memory is gone. Out of memory the interpreter
\* raises MemoryError, which availability (line 79) answers with
\* freebusy_failed, or the process is killed and no response is sent.
LoopOutcomes(d) ==
    IF d < 0 THEN {"OverflowError", "MemoryError", "killed"} ELSE {"MemoryError", "killed"}

\* lines 185-186 build naive datetimes, lines 194-195 build aware ones from
\* strings with an offset: line 220 compares the two and raises TypeError
NaiveAgainstAware(aware, busy) == aware /\ busy # << >>

SlotPairs == Hours \X Hours

\* a busy entry without "start" / "end" (or with an empty one)
NoTime == 0 - 1
\* a "start" / "end" that datetime.fromisoformat refuses
BadTime == 0 - 2
\* what a busy entry of the response may carry as start and as end
RawTimes == Hours \cup {NoTime, BadTime}
RawEntries == RawTimes \X RawTimes

RECURSIVE BusyListsUpTo(_)
BusyListsUpTo(n) ==
    IF n = 0 THEN {<< >>}
    ELSE LET shorter == BusyListsUpTo(n - 1) IN
         shorter \cup {Append(l, x) : l \in {m \in shorter : Len(m) = n - 1}, x \in RawEntries}

\* freebusy responses: the entries of a list, dealt to two calendars
Responses ==
    UNION {{<<SubSeq(l, 1, k), SubSeq(l, k + 1, Len(l))>> : k \in 0..Len(l)} :
              l \in BusyListsUpTo(MaxSlotBusy)}

\* lines 194-195: fromisoformat raises on the start or on the end
ParseRaises(b) == b[1] = BadTime \/ b[2] = BadTime

\* every entry is taken as it comes
Keeps_Mut(b) == TRUE

\* lines 193-200: an entry is appended if nothing raised and both are there
Keeps(b) == ~ParseRaises(b) /\ b[1] # NoTime /\ b[2] # NoTime

\* only the first calendar of the response is read
Aggregate_Mut(calendars) ==
    IF calendars = << >> THEN << >> ELSE SelectSeq(calendars[1], Keeps)

\* lines 189-200: the busy entries of all calendars, in the order they come
RECURSIVE Aggregate(_)
Aggregate(calendars) ==
    IF calendars = << >> THEN << >>
    ELSE SelectSeq(calendars[1], Keeps) \o Aggregate(Tail(calendars))

AvailabilityResponse(status, found, details) ==
    [status |-> status, slots |-> found, details |-> details]

InitAvailability ==
    /\ InitBooking
    /\ busy_intervals = << >>
    /\ merged = << >>
    /\ fb_pc = "idle"
    /\ NoAvailability

\* availability, lines 56-73: read the payload
AvailabilityRequest ==
    /\ fb_pc = "idle"
    /\ work_start' \in Hours
    /\ work_end' \in Hours
    /\ duration' \in Durations
    /\ fb_pc' = "freebusy"
    /\ UNCHANGED <<busy_intervals, merged, busy_aware, slots, fb_call, fb, fb_result>>
    /\ UNCHANGED booking_vars

\* a failed busy query counts as an empty calendar
AfterFreeBusy_Mut(ok) == "aggregated"

\* availability, lines 75-81: an exception of the busy query ends the request
AfterFreeBusy(ok) == IF ok THEN "aggregated" ELSE "done"

\* availability, line 76, and compute_free_slots_from_freebusy, lines 184-200
FreeBusyQuery ==
    /\ fb_pc = "freebusy"
    /\ \E ok \in BOOLEAN :
        /\ fb_call' = Outcome(ok)
        /\ fb_pc' = AfterFreeBusy(ok)
        /\ IF ok
           THEN /\ fb' \in Responses
                /\ busy_intervals' = Aggregate(fb')
                /\ busy_aware' \in BOOLEAN
           ELSE UNCHANGED <<fb, busy_intervals, busy_aware>>
        /\ IF AfterFreeBusy(ok) = "done"
           THEN fb_result' = AvailabilityResponse("freebusy_failed", << >>, "HttpError")
           ELSE UNCHANGED fb_result
    /\ UNCHANGED <<merged, work_start, work_end, duration, slots>>
    /\ UNCHANGED booking_vars

\* compute_free_slots_from_freebusy, lines 216-237, and availability, lines 78-81
Walk ==
    /\ fb_pc = "merged"
    /\ IF NaiveAgainstAware(busy_aware, merged)
       THEN /\ fb_pc' = "done"
            /\ fb_result' = AvailabilityResponse("freebusy_failed", << >>, "TypeError")
            /\ UNCHANGED slots
       ELSE IF LoopsForever(work_start, merged, work_end, duration)
       THEN \E outcome \in LoopOutcomes(duration) :
              IF outcome = "killed"
              THEN /\ fb_pc' = "looping"
                   /\ UNCHANGED <<slots, fb_result>>
              ELSE /\ fb_pc' = "done"
                   /\ fb_result' = AvailabilityResponse("freebusy_failed", << >>, outcome)
                   /\ UNCHANGED slots
       ELSE /\ fb_pc' = "done"
            /\ slots' = FreeSlots(merged, work_start, work_end, duration)
            /\ fb_result' = AvailabilityResponse("ok", slots', "")
    /\ UNCHANGED <<busy_intervals, merged, work_start, work_end, duration,
                   busy_aware, fb_call, fb>>
    /\ UNCHANGED booking_vars

NextAvailability ==
    \/ AvailabilityRequest
    \/ FreeBusyQuery
    \/ Merge
    \/ Walk

SpecAvailability == InitAvailability /\ [][NextAvailability]_vars

(* --------------------------- specifications --------------------------- *)

Next ==
    \/ Tick
    \/ \E r \in Procs : Respond(r)
    \/ \E r \in Procs : Notify(r)
    \/ \E r \in Procs : BookRequest(r)
    \/ \E r \in Procs : BookLookup(r)
    \/ \E r \in Procs : BookCreateEvent(r)
    \/ \E r \in Procs : BookInsert(r)
    \/ \E r \in Procs : BookRollback(r)
    \/ \E r \in Procs : RescheduleRequest(r)
    \/ \E r \in Procs : RescheduleLookup(r)
    \/ \E r \in Procs : RescheduleUpdateEvent(r)
    \/ \E r \in Procs : RescheduleDb(r)
    \/ \E r \in Procs : CancelRequest(r)
    \/ \E r \in Procs : CancelLookup(r)
    \/ \E r \in Procs : CancelDeleteEvent(r)
    \/ \E r \in Procs : CancelDb(r)

Spec == Init /\ [][Next]_vars

(* ------------------ two requests for one stored booking ---------------- *)

\* the booking a successful book of (primary, 0, 1) without booking_ref and
\* idempotency_key leaves behind at second 1, with its calendar event
InitRace ==
    /\ store = <<NewBooking(<< >>, BookPayload(None, None, "primary", 0, 1), 1, 1)>>
    /\ events = create_event(<< >>, "primary", 0, 1)
    /\ clock = 1
    /\ nreq = 1
    /\ pc = [r \in Procs |-> "idle"]
    /\ req = [r \in Procs |-> NoReq]
    /\ seen = [r \in Procs |-> 0]
    /\ evt = [r \in Procs |-> NoEvent]
    /\ booking = [r \in Procs |-> NoBooking]
    /\ result = [r \in Procs |-> NoResult]
    /\ calls = [r \in Procs |-> << >>]
    /\ mail = [r \in Procs |-> "none"]
    /\ busy_intervals = << >>
    /\ merged = << >>
    /\ fb_pc = "off"
    /\ NoAvailability

\* the response leaves; the task takes no further request and what it did
\* stays on record
Retire(r) ==
    /\ pc[r] = "done"
    /\ pc' = [pc EXCEPT ![r] = "retired"]
    /\ UNCHANGED <<store, events, clock, nreq, req, seen, evt, booking, result, calls, mail>>
    /\ UNCHANGED freebusy_vars

NextRace ==
    \/ Tick
    \/ \E r \in Procs : Retire(r)
    \/ \E r \in Procs : Notify(r)
    \/ \E r \in Procs : RescheduleRequest(r)
    \/ \E r \in Procs : RescheduleLookup(r)
    \/ \E r \in Procs : RescheduleUpdateEvent(r)
    \/ \E r \in Procs : RescheduleDb(r)
    \/ \E r \in Procs : CancelRequest(r)
    \/ \E r \in Procs : CancelLookup(r)
    \/ \E r \in Procs : CancelDeleteEvent(r)
    \/ \E r \in Procs : CancelDb(r)

SpecRace == InitRace /\ [][NextRace]_vars

(* ------------------------------ properties ---------------------------- *)

\* task r has finished a request of kind op and its response is at hand
Done(r, op) == pc[r] = "done" /\ req[r].op = op

\* positions of the calls of one kind in r's record
CallsOf(r, op) == {i \in DOMAIN calls[r] : calls[r][i].op = op}

\* no collaborator raised on its own during r's request
NoFault(r) == \A i \in DOMAIN calls[r] : calls[r][i].outcome # "error"

RowsWithKey(key) == {i \in DOMAIN store : store[i].idempotency_key = key}

\* a reference the route generated, not one a client supplied
Generated(ref) == ref \notin ClientStrings \cup {None}

\* C1: a create that repeats the idempotency_key (and the other arguments, no
\* booking_ref) of a booking stored before it arrived returns that booking's
\* booking_ref, leaves one row with the key and calls createEvent not at all.
C1_IdempotentCreate ==
    \A r \in Procs : \A i \in DOMAIN store :
        ( /\ Done(r, "book")
          /\ Truthy(req[r].idempotency_key)
          /\ ~Truthy(req[r].booking_ref)
          /\ NoFault(r)
          /\ i <= seen[r]
          /\ store[i].idempotency_key = req[r].idempotency_key
          /\ Generated(store[i].booking_ref)
          /\ store[i].calendar_id = req[r].calendar_id
          /\ store[i].start = req[r].start
          /\ store[i].end = req[r].end )
        => /\ result[r].status = "ok"
           /\ result[r].booking.booking_ref = store[i].booking_ref
           /\ Cardinality(RowsWithKey(req[r].idempotency_key)) = 1
           /\ CallsOf(r, "createEvent") = {}

\* r's record shows createEvent succeeding at c and the insert failing at i
CreatedThenInsertFailed(r, c, i) ==
    /\ c \in CallsOf(r, "createEvent") /\ calls[r][c].outcome = "ok"
    /\ i \in CallsOf(r, "insert") /\ calls[r][i].outcome # "ok"
    /\ c < i

C3_CalendarCreateFailed ==
    \A r \in Procs : \A c \in DOMAIN calls[r] :
        ( /\ Done(r, "book")
          /\ calls[r][c].op = "createEvent" /\ calls[r][c].outcome = "error" )
        => /\ result[r].status = "calendar_create_failed"
           /\ c = Len(calls[r])
           /\ CallsOf(r, "insert") = {}
           /\ \A k \in DOMAIN store : k > seen[r] => store[k].event_id # NoEvent

C3_Witness ==
    \E r \in Procs :
        /\ Done(r, "book")
        /\ result[r].status = "calendar_create_failed"
        /\ Len(store) > 0

\* the store answered every call r made to it
StoreHealthy(r) ==
    \A i \in DOMAIN calls[r] :
        calls[r][i].op \in {"select", "insert", "update"} => calls[r][i].outcome = "ok"

\* C4: a cancel of a stored booking whose deleteEvent failed, the store being
\* healthy, answers ok with the booking cancelled, and the row is cancelled.
C4_CancelSurvivesDeleteFailure ==
    \A r \in Procs : \A d \in DOMAIN calls[r] :
        ( /\ Done(r, "cancel")
          /\ calls[r][d].op = "deleteEvent" /\ calls[r][d].outcome = "error"
          /\ StoreHealthy(r) )
        => /\ result[r].status = "ok"
           /\ result[r].booking.booking_ref = req[r].booking_ref
           /\ result[r].booking.status = "cancelled"
           /\ get_booking_by_ref(store, req[r].booking_ref).status = "cancelled"

C4_Witness ==
    \E r \in Procs : \E d \in DOMAIN calls[r] :
        /\ Done(r, "cancel")
        /\ calls[r][d].op = "deleteEvent" /\ calls[r][d].outcome = "error"
        /\ StoreHealthy(r)
        /\ calls[r][d].event_id \in DOMAIN events
        /\ ~events[calls[r][d].event_id].deleted

\* C5: a row whose status is cancelled is cancelled after every step.
C5_CancelledTerminal ==
    [][\A i \in DOMAIN store :
          store[i].status = "cancelled" => store'[i].status = "cancelled"]_vars

\* C6: no two rows carry the same non-null idempotency_key.
C6_KeyUnique ==
    \A i, j \in DOMAIN store :
        (i # j /\ Truthy(store[i].idempotency_key))
        => store[i].idempotency_key # store[j].idempotency_key

\* C7: a create that lost the race against a concurrent create with the same
\* idempotency_key (a row with the key was stored by another request after this
\* one arrived) answers ok with that row, and that row alone carries the key.
C7_ConcurrentCreate ==
    \A r \in Procs : \A i \in DOMAIN store :
        ( /\ Done(r, "book")
          /\ Truthy(req[r].idempotency_key)
          /\ NoFault(r)
          /\ RowsWithKey(req[r].idempotency_key) \cap 1..seen[r] = {}
          /\ i > seen[r]
          /\ store[i].idempotency_key = req[r].idempotency_key
          /\ store[i].event_id # evt[r] )
        => /\ result[r].status = "ok"
           /\ result[r].booking = store[i]
           /\ RowsWithKey(req[r].idempotency_key) = {i}

\* r's record shows updateEvent failing
UpdateEventFailed(r) ==
    \E u \in DOMAIN calls[r] :
        calls[r][u].op = "updateEvent" /\ calls[r][u].outcome = "error"

\* C8: a reschedule whose updateEvent failed answers calendar_update_failed
\* and has made no write to the store; the step in which the call fails leaves
\* every row as it was (start, end, status, updated_at).
C8_RescheduleAborts ==
    /\ [](\A r \in Procs :
            (Done(r, "reschedule") /\ UpdateEventFailed(r))
            => /\ result[r].status = "calendar_update_failed"
               /\ CallsOf(r, "update") = {})
    /\ [][\A r \in Procs :
            (pc[r] = "reschedule_update_event" /\ UpdateEventFailed(r)')
            => store' = store]_vars

C8_Witness ==
    \E r \in Procs :
        /\ Done(r, "reschedule")
        /\ UpdateEventFailed(r)
        /\ booking[r] # NoBooking
        /\ store[booking[r].id] = booking[r]
        /\ req[r].start # booking[r].start

\* C9: a reschedule or cancel naming a booking_ref that no row carries answers
\* booking_not_found and has made no call but the one lookup: no updateEvent,
\* no deleteEvent, no write.
C9_UnknownRef ==
    \A r \in Procs :
        ( /\ Done(r, "reschedule") \/ Done(r, "cancel")
          /\ Len(calls[r]) > 0
          /\ calls[r][1] = Call("select", None, NoEvent, "ok")
          /\ \A k \in DOMAIN store : store[k].booking_ref # req[r].booking_ref )
        => /\ result[r].status = "booking_not_found"
           /\ Len(calls[r]) = 1

C9_Witness ==
    \E r \in Procs :
        /\ Done(r, "reschedule") /\ result[r].status = "booking_not_found"
        /\ Len(store) > 0

\* half-open [start, end): an interval with start >= end is empty
Proper(x) == x[1] < x[2]
Within(x, o) == o[1] <= x[1] /\ x[2] <= o[2]
Holders(x) == {k \in DOMAIN merged : Within(x, merged[k])}

\* C10: the merged list is ascending by start, any two of its intervals are
\* apart (the earlier ends before the later starts), every non-empty input
\* interval lies in exactly one merged interval, and two non-empty inputs that
\* touch lie in the same one.
C10_MergeCorrect ==
    fb_pc = "merged" =>
        /\ \A i, j \in DOMAIN merged :
              i < j => merged[i][1] <= merged[j][1] /\ merged[i][2] < merged[j][1]
        /\ \A i \in DOMAIN busy_intervals :
              Proper(busy_intervals[i]) => Cardinality(Holders(busy_intervals[i])) = 1
        /\ \A i, j \in DOMAIN busy_intervals :
              ( /\ Proper(busy_intervals[i]) /\ Proper(busy_intervals[j])
                /\ busy_intervals[j][1] = busy_intervals[i][2] )
              => Holders(busy_intervals[i]) = Holders(busy_intervals[j])

C10_Witness ==
    /\ fb_pc = "merged"
    /\ busy_intervals = << <<2, 3>>, <<0, 1>>, <<1, 2>> >>
    /\ merged = << <<0, 3>> >>

\* C16: every row whose status is confirmed or rescheduled has an event_id
\* that is neither None nor the empty string.
C16_EventIdPresent ==
    \A i \in DOMAIN store :
        store[i].status \in {"confirmed", "rescheduled"}
        => store[i].event_id \notin {NoEvent, EmptyId}

\* C17: every stored row has start < end.
C17_StartBeforeEnd ==
    \A i \in DOMAIN store : store[i].start < store[i].end

\* a booking that was created, rescheduled and then cancelled
C17_Witness ==
    \E r \in Procs :
        /\ Done(r, "cancel") /\ result[r].status = "ok"
        /\ booking[r].status = "rescheduled"
        /\ result[r].booking.status = "cancelled"

\* the request of task r carries a window with end <= start
EmptyWindowRequest(r) ==
    /\ req[r].op \in {"book", "reschedule"}
    /\ req[r].end <= req[r].start

\* C18: a create or reschedule whose window has end <= start answers
\* end_must_be_after_start without a single collaborator call, and the step
\* that takes the request leaves the store and the calendar as they were.
C18_InvalidRangeRejected ==
    /\ [](\A r \in Procs :
            (pc[r] # "idle" /\ EmptyWindowRequest(r))
            => /\ pc[r] = "done"
               /\ result[r].status = "end_must_be_after_start"
               /\ calls[r] = << >>)
    /\ [][\A r \in Procs :
            (pc[r] = "idle" /\ pc'[r] # "idle" /\ EmptyWindowRequest(r)')
            => store' = store /\ events' = events]_vars

C18_Witness ==
    \E r \in Procs :
        /\ Done(r, "reschedule") /\ EmptyWindowRequest(r)
        /\ get_booking_by_ref(store, req[r].booking_ref).status = "confirmed"

\* row b is row a but for status and updated_at
SameButStatus(a, b) == b = [a EXCEPT !.status = b.status, !.updated_at = b.updated_at]

\* C19: a stored booking_ref is carried by a row after every step, and the
\* step in which cancel writes changes nothing of a row but status and
\* updated_at.
C19_NeverDeleted ==
    [][/\ \A i \in DOMAIN store :
             \E j \in DOMAIN store' : store'[j].booking_ref = store[i].booking_ref
       /\ \A r \in Procs :
             (pc[r] = "cancel_db" /\ pc'[r] = "done")
             => /\ Len(store') = Len(store)
                /\ \A i \in DOMAIN store : SameButStatus(store[i], store'[i])]_vars

C19_Witness ==
    \E r \in Procs :
        /\ Done(r, "cancel") /\ result[r].status = "ok"
        /\ result[r].booking.status = "cancelled"
        /\ Len(store) = 2

(* ------------------------ availability properties --------------------- *)

\* the availability request has answered with a slot list
Returned == fb_pc = "done" /\ fb_result.status = "ok"

Min(a, b) == IF a <= b THEN a ELSE b
\* the half-open intervals x and y have a point in common
Intersects(x, y) == Max(x[1], y[1]) < Min(x[2], y[2])

\* C11: no returned slot starts before work_start or ends after work_end,
\* whatever the busy intervals (busy time outside the working hours included).
C11_SlotsInsideWorkingHours ==
    Returned =>
        \A i \in DOMAIN fb_result.slots :
            /\ work_start <= fb_result.slots[i][1]
            /\ fb_result.slots[i][2] <= work_end

\* C12: no returned slot intersects a busy interval of the input.
C12_SlotsAvoidBusy ==
    Returned =>
        \A i \in DOMAIN fb_result.slots : \A k \in DOMAIN busy_intervals :
            ~Intersects(fb_result.slots[i], busy_intervals[k])

\* a slot starting at the cursor would have run into the busy interval
C12_Witness ==
    /\ Returned
    /\ busy_intervals = << <<1, 2>>, <<0, 1>> >>
    /\ work_start = 0 /\ work_end = 4 /\ duration = 2
    /\ fb_result.slots = << <<2, 4>> >>

\* C13: every returned slot is exactly duration long, and what is left of a
\* gap after the last full slot is not returned: busy (0, 1), working hours
\* 0 to 4, duration 2 give the one slot (1, 3).
C13_ExactDuration ==
    Returned =>
        /\ \A i \in DOMAIN fb_result.slots :
              fb_result.slots[i][2] - fb_result.slots[i][1] = duration
        /\ ( /\ busy_intervals = << <<0, 1>> >>
             /\ work_start = 0 /\ work_end = 4 /\ duration = 2 )
           => fb_result.slots = << <<1, 3>> >>

C13_Witness ==
    /\ Returned
    /\ busy_intervals = << <<0, 1>> >>
    /\ work_start = 0 /\ work_end = 4 /\ duration = 2
    /\ Len(fb_result.slots) = 1

\* C14: the returned slots ascend by start, each starts at or after the end of
\* the one before it, and none appears twice.
C14_SlotsOrdered ==
    Returned =>
        \A i, j \in DOMAIN fb_result.slots :
            i < j => /\ fb_result.slots[i][2] <= fb_result.slots[j][1]
                     /\ fb_result.slots[i] # fb_result.slots[j]

\* C15: with work_end <= work_start the request answers with the empty slot
\* list and no error, whatever the busy intervals.
C15_EmptyWindow ==
    (fb_pc = "done" /\ fb_call = "ok" /\ work_end <= work_start)
    => /\ fb_result.status = "ok"
       /\ fb_result.slots = << >>

\* C20: if the busy query fails the request answers freebusy_failed, carries
\* no slot, and no slot was computed.
C20_FreeBusyFailed ==
    (fb_pc = "done" /\ fb_call = "error")
    => /\ fb_result.status = "freebusy_failed"
       /\ fb_result.slots = << >>
       /\ slots = << >>

C20_Witness ==
    /\ fb_pc = "done" /\ fb_call = "error"
    /\ work_start < work_end /\ duration > 0 /\ duration <= work_end - work_start

\* a busy entry that carries a start and an end fromisoformat accepts
WellFormed(b) == b \in SlotPairs

RECURSIVE Flatten(_)
Flatten(lists) == IF lists = << >> THEN << >> ELSE lists[1] \o Flatten(Tail(lists))

\* the well-formed entries of the response, in the order they come
WellFormedEntries == SelectSeq(Flatten(fb), WellFormed)

\* C21: a malformed busy entry (start or end missing or unparsable) is skipped:
\* the request ends as it does on the well-formed entries alone, with the same
\* answer, and does not end where that one would not.
C21_MalformedSkipped ==
    (fb_pc \in {"done", "looping"} /\ fb_call = "ok") =>
        LET busy == MergeBusy(WellFormedEntries) IN
        IF NaiveAgainstAware(busy_aware, busy)
        THEN fb_pc = "done" /\ fb_result.status = "freebusy_failed"
        ELSE IF LoopsForever(work_start, busy, work_end, duration)
        THEN \/ fb_pc = "looping"
             \/ /\ fb_pc = "done"
                /\ fb_result.status = "freebusy_failed"
                /\ fb_result.details \in LoopOutcomes(duration)
        ELSE /\ fb_pc = "done"
             /\ fb_result =
                  AvailabilityResponse("ok",
                      FreeSlots(busy, work_start, work_end, duration), "")

C21_Witness ==
    /\ Returned
    /\ fb = << << <<BadTime, 3>> >>, << <<1, 2>> >> >>
    /\ work_start = 0 /\ work_end = 4 /\ duration = 1
    /\ fb_result.slots = << <<0, 1>>, <<2, 3>>, <<3, 4>> >>

\* C22: a busy interval with start >= end is dropped before merging: the
\* returned slots are the slots of the input without such intervals.
C22_EmptyIntervalsDropped ==
    (Returned /\ duration > 0) =>
        fb_result.slots =
            FreeSlots(MergeBusy(SelectSeq(busy_intervals, Proper)),
                      work_start, work_end, duration)

\* C23: no returned slot intersects a busy interval of any calendar of the
\* response.
C23_FreeOnEveryCalendar ==
    Returned =>
        \A i \in DOMAIN fb_result.slots : \A c \in DOMAIN fb : \A k \in DOMAIN fb[c] :
            WellFormed(fb[c][k]) => ~Intersects(fb_result.slots[i], fb[c][k])

C23_Witness ==
    /\ Returned
    /\ fb = << << <<2, 3>> >>, << <<0, 1>> >> >>
    /\ work_start = 0 /\ work_end = 4 /\ duration = 1
    /\ fb_result.slots = << <<1, 2>>, <<3, 4>> >>

\* where a free gap may begin: work_start, or the end of a merged busy interval
GapStarts == {work_start} \cup {merged[k][2] : k \in DOMAIN merged}
\* where the gap that holds instant t ends: the next busy start, or work_end
GapLimit(t) ==
    LET later == {k \in DOMAIN merged : merged[k][1] >= t} IN
    IF later = {} THEN work_end
    ELSE merged[CHOOSE k \in later : \A j \in later : merged[k][1] <= merged[j][1]][1]
InsideBusy(t) == \E k \in DOMAIN merged : merged[k][1] <= t /\ t < merged[k][2]
LastOfGap(i) ==
    i = Len(fb_result.slots) \/ fb_result.slots[i + 1][1] # fb_result.slots[i][2]

\* C29: with valid (start < end) busy intervals, every slot starts at the start
\* of a gap or where the slot before it ended; a gap with room for a slot has a
\* slot at its start; behind the last slot of a gap less than one duration is
\* left before the next busy start or work_end.
C29_GreedyPacking ==
    (Returned /\ \A k \in DOMAIN busy_intervals : Proper(busy_intervals[k])) =>
        /\ \A i \in DOMAIN fb_result.slots :
              \/ fb_result.slots[i][1] \in GapStarts
              \/ i > 1 /\ fb_result.slots[i][1] = fb_result.slots[i - 1][2]
        /\ \A g \in GapStarts :
              (g >= work_start /\ ~InsideBusy(g) /\ g + duration <= GapLimit(g))
              => \E i \in DOMAIN fb_result.slots : fb_result.slots[i] = <<g, g + duration>>
        /\ \A i \in DOMAIN fb_result.slots :
              LastOfGap(i) => GapLimit(fb_result.slots[i][2]) - fb_result.slots[i][2] < duration

C29_Witness ==
    /\ Returned
    /\ busy_intervals = << <<2, 3>> >>
    /\ work_start = 0 /\ work_end = 4 /\ duration = 2
    /\ fb_result.slots = << <<0, 2>> >>


(* ------------------- notification, reschedule, statuses ---------------- *)

\* C24: a create, reschedule or cancel that got as far as the notification
\* answers ok whether the notification could be launched or not; the handler
\* returns in the step that launches it; and the step in which the launched
\* notification ends, sent or failed, leaves the store, the calendar and the
\* response as they were.
C24_NotificationDetached ==
    /\ [](\A r \in Procs :
            (pc[r] = "done" /\ mail[r] # "none") => result[r].status = "ok")
    /\ [][\A r \in Procs :
            (mail[r] = "none" /\ mail'[r] # "none")
            => pc'[r] = "done" /\ mail'[r] \in {"pending", "not_launched"}]_vars
    /\ [][\A r \in Procs :
            (mail[r] = "pending" /\ mail'[r] \in {"sent", "failed"})
            => UNCHANGED <<store, events, result, pc>>]_vars

C24_Witness ==
    \E r, q \in Procs :
        /\ Done(r, "reschedule") /\ mail[r] = "failed" /\ result[r].status = "ok"
        /\ r # q /\ pc[q] \notin {"idle", "done"}

\* r's record shows the call op with the outcome o
Called(r, op, o) == \E c \in CallsOf(r, op) : calls[r][c].outcome = o

\* C25: when updateEvent and the local update of a reschedule both succeeded,
\* the row the booking_ref names has the requested start and end, status
\* rescheduled and updated_at set to the time of the write, and the response
\* carries that row; whatever the status the row was loaded with.
C25_RescheduleWrites ==
    \A r \in Procs :
        ( /\ Done(r, "reschedule")
          /\ Called(r, "updateEvent", "ok")
          /\ Called(r, "update", "ok") )
        => LET b == get_booking_by_ref(store, req[r].booking_ref) IN
           /\ b # NoBooking
           /\ b.start = req[r].start /\ b.end = req[r].end
           /\ b.status = "rescheduled"
           /\ b.updated_at = clock /\ b.updated_at # 0
           /\ result[r] = Response("ok", b)

C25_Witness ==
    \E r \in Procs :
        /\ Done(r, "reschedule")
        /\ Called(r, "updateEvent", "ok") /\ Called(r, "update", "ok")
        /\ booking[r].status = "rescheduled"
        /\ booking[r].start # req[r].start

C27_NoRetry ==
    \A r \in Procs :
        /\ Cardinality(CallsOf(r, "createEvent")) <= 1
        /\ Cardinality(CallsOf(r, "updateEvent")) <= 1
        /\ (Done(r, "book") /\ Called(r, "createEvent", "error"))
           => /\ result[r].status = "calendar_create_failed"
              /\ CallsOf(r, "createEvent") = {Len(calls[r])}
        /\ (Done(r, "reschedule") /\ Called(r, "updateEvent", "error"))
           => /\ result[r].status = "calendar_update_failed"
              /\ CallsOf(r, "updateEvent") = {Len(calls[r])}

C27_Witness ==
    \E r, q \in Procs :
        /\ Done(r, "book") /\ Called(r, "createEvent", "error")
        /\ r # q /\ req[q].op = "reschedule" /\ Called(q, "updateEvent", "ok")

\* models.Booking, line 71: the statuses a row can have
Statuses == {"pending", "confirmed", "rescheduled", "cancelled"}

\* C28: every row's status is one of pending, confirmed, rescheduled,
\* cancelled, and a row that enters the store enters it as confirmed.
C28_StatusDomain ==
    /\ [](\A k \in DOMAIN store : store[k].status \in Statuses)
    /\ [][\A k \in DOMAIN store' :
            k \notin DOMAIN store => store'[k].status = "confirmed"]_vars

C28_Witness ==
    \E j, k \in DOMAIN store :
        /\ store[j].status = "cancelled"
        /\ store[k].status = "confirmed"
        /\ store[k].created_at > store[j].created_at

\* C30: in a finished create every lookup precedes createEvent and every
\* insert follows a createEvent that succeeded; a row whose event_id is an
\* identifier of the calendar has its event in the calendar; and a create
\* whose idempotency_key was on a row before it arrived has made no calendar
\* call.
C30_CreateOrder ==
    \A r \in Procs :
        Done(r, "book")
        => /\ \A l \in CallsOf(r, "select") : \A c \in CallsOf(r, "createEvent") : l < c
           /\ \A i \in CallsOf(r, "insert") :
                \E c \in CallsOf(r, "createEvent") :
                    c < i /\ calls[r][c].outcome = "ok"
           /\ \A k \in DOMAIN store :
                store[k].event_id > NoEvent => store[k].event_id \in DOMAIN events
           /\ ( /\ Truthy(req[r].idempotency_key)
                /\ \E k \in DOMAIN store :
                     k <= seen[r] /\ store[k].idempotency_key = req[r].idempotency_key )
              => CallsOf(r, "createEvent") \cup CallsOf(r, "deleteEvent") = {}


(* --------------------- rollback, replay, interleavings ----------------- *)

C32_ReplayOnlyOnKey ==
    \A r \in Procs :
        ( /\ Done(r, "book")
          /\ result[r].status = "ok"
          /\ CallsOf(r, "createEvent") = {} )
        => result[r].booking.idempotency_key = req[r].idempotency_key

\* both tasks have finished a request for the same booking, r one of kind
\* op_r and q one of kind op_q, and every call either made went well
BothCompleted(r, op_r, q, op_q) ==
    /\ r # q
    /\ pc[r] \in {"done", "retired"} /\ req[r].op = op_r
    /\ pc[q] \in {"done", "retired"} /\ req[q].op = op_q
    /\ req[r].booking_ref = req[q].booking_ref
    /\ result[r].status = "ok" /\ result[q].status = "ok"
    /\ \A t \in {r, q} : \A c \in DOMAIN calls[t] : calls[t][c].outcome = "ok"

\* C33: after two reschedules of one booking in which no call failed, the
\* row's start and end are those of its calendar event.
C33_RescheduleRace ==
    \A r, q \in Procs :
        BothCompleted(r, "reschedule", q, "reschedule")
        => LET b == get_booking_by_ref(store, req[r].booking_ref) IN
           /\ b.start = events[b.event_id].start
           /\ b.end = events[b.event_id].end

\* C34: after a cancel and a reschedule of one booking in which no call
\* failed, the reschedule having loaded the booking before it was cancelled,
\* the row is cancelled, and it is not confirmed or rescheduled with its
\* event deleted.
C34_CancelRescheduleRace ==
    \A r, q \in Procs :
        ( /\ BothCompleted(r, "cancel", q, "reschedule")
          /\ booking[q].status # "cancelled" )
        => LET b == get_booking_by_ref(store, req[r].booking_ref) IN
           /\ b.status = "cancelled"
           /\ ~(b.status \in {"confirmed", "rescheduled"} /\ events[b.event_id].deleted)

\* C35: no availability request is in a slot loop that no response follows.
C35_Terminates == fb_pc # "looping"

\* C36: a create of a proper window without booking_ref and idempotency_key,
\* in which no call raised and createEvent returned the event's id, answers
\* ok, and no two rows have the same booking_ref.
C36_DistinctRefs ==
    /\ \A r \in Procs :
        ( /\ Done(r, "book")
          /\ ~Truthy(req[r].booking_ref) /\ ~Truthy(req[r].idempotency_key)
          /\ req[r].start < req[r].end
          /\ NoFault(r)
          /\ \A c \in CallsOf(r, "createEvent") : calls[r][c].event_id \in DOMAIN events )
        => result[r].status = "ok"
    /\ \A j, k \in DOMAIN store : j # k => store[j].booking_ref # store[k].booking_ref

\* the columns neither reschedule nor cancel writes
SameIdentity(a, b) ==
    /\ a.id = b.id /\ a.booking_ref = b.booking_ref
    /\ a.idempotency_key = b.idempotency_key
    /\ a.calendar_id = b.calendar_id /\ a.event_id = b.event_id
    /\ a.created_at = b.created_at

C39_DuplicateRef ==
    \A r \in Procs : \A k \in DOMAIN store :
        ( /\ Done(r, "book")
          /\ Truthy(req[r].booking_ref)
          /\ req[r].start < req[r].end
          /\ k <= seen[r]
          /\ store[k].booking_ref = req[r].booking_ref
          /\ store[k].idempotency_key # req[r].idempotency_key
          /\ NoFault(r) )
        => /\ result[r].status = "db_create_failed"
           /\ Cardinality({j \in DOMAIN store :
                             store[j].booking_ref = req[r].booking_ref}) = 1
           /\ \A c \in CallsOf(r, "createEvent") :
                calls[r][c].event_id \in DOMAIN events
                => events[calls[r][c].event_id].deleted

=============================================================================
